---- MODULE Spec2Model ----
(***************************************************************************)
(* Authentication and authorization core of the FastAPI client/invoice     *)
(* backend: the token codec (auth/jwt.py), the authorization dependencies  *)
(* (auth/dependencies.py), the credential hasher (auth/utils.py) and the   *)
(* register / login handlers (routers/auth.py).                            *)
(*                                                                         *)
(* Time is counted in ticks, TicksPerSecond of them to a second, so that   *)
(* the truncation of datetimes to whole seconds made by the JWT library    *)
(* is visible.                                                             *)
(***************************************************************************)
EXTENDS Integers, FiniteSets, Sequences, TLC

\* ------------------------------------------------------------------ bounds

\* Clock resolution of the model: ticks per second.
TicksPerSecond == 2
\* How many ticks the clock is followed past the start and past a jump.
MaxElapsed == 3
\* The last tick of the clock in the codec's specification.
MaxCodecNow == 7
\* The longest explicit lifetime, in ticks, passed to create_access_token.
MaxDelta == 3
\* How many hash_password calls the hasher's specification follows.
MaxHashes == 3
\* How many rows are written by another program than the application.
MaxStoredRows == 1
\* How many register requests the concurrent specification follows.
MaxRequests == 2
\* How many inserts into clients, factures and reclamations are followed.
MaxClients == 2
MaxFactures == 2
MaxReclamations == 1

\* --------------------------------------------------------------- constants

\* Python's None, where a string is expected.
None == "<None>"
\* A JSON value that is not a string (a list, a number, an object).
NonStr == "<non-string>"

\* os.getenv("ALGORITHM", "HS256")
ALGORITHM == "HS256"
\* int(os.getenv("ACCESS_TOKEN_EXPIRE_MINUTES", 30))
ACCESS_TOKEN_EXPIRE_MINUTES == 30
\* timedelta(minutes = m) is m * 60 seconds
SecondsPerMinute == 60

Role_ADMIN == "admin"
Role_USER == "user"
Roles == {Role_ADMIN, Role_USER}

Names == {"alice", "bob"}
Emails == {"alice@x.com", "bob@x.com"}
Passwords == {"secret123"}
LoginPasswords == {"secret123", "wrong-pw"}

\* Values the environment variable SECRET_KEY can have when the process starts.
ServerSecret == "k-server"
OtherSecret == "k-other"
ConfiguredSecrets == {ServerSecret}
EnvSecrets == {None, "", ServerSecret}
OtherAlgorithm == "HS384"

\* sql_mode of the MySQL server behind DATABASE_URL: the default, under which
\* a value that a column cannot hold is an error, and the empty mode, under
\* which the value is adjusted and stored with a warning.
STRICT_TRANS_TABLES == "STRICT_TRANS_TABLES"
SqlModes == {STRICT_TRANS_TABLES, ""}

VARIABLES
    environ,      \* the process environment: the value of SECRET_KEY in it
    proc,         \* "startup" before auth/jwt.py is imported, then "serving"
    SECRET_KEY,   \* module global of auth/jwt.py
    now,          \* datetime.now(timezone.utc), in ticks
    users,        \* rows of table users
    last,         \* the last request handled and its response
    call,         \* codec: the last create_access_token call and its result
    held,         \* the token string a caller holds (possibly altered)
    dec,          \* codec: the last decode_access_token call and its result
    entropy,      \* how many salts the random source has handed out
    hashed,       \* hasher: the hash_password calls made, oldest first
    ver,          \* hasher: the last verify_password call and its result
    inflight,     \* the register requests being handled, by request number
    clients,      \* rows of table clients
    factures,     \* rows of table factures
    reclamations, \* rows of table reclamations
    autoinc       \* the last auto-increment id handed out, by table

vars == <<environ, proc, SECRET_KEY, now, users, last, call, held, dec,
          entropy, hashed, ver, inflight, clients, factures, reclamations, autoinc>>

\* ------------------------------------------------------------- token codec

\* timegm(dt.utctimetuple()): a datetime cut to whole seconds.
timegm(t) == t \div TicksPerSecond

\* The HMAC of header and payload under key: determined by the three, and
\* different for different keys, algorithms or payloads.
HMAC(key, alg, payload) == [key |-> key, alg |-> alg, payload |-> payload, flip |-> 0]

\* One bit of a signature altered.
FlipBit(sig) == [sig EXCEPT !.flip = 1 - @]

NoPayload == [sub |-> None, role |-> None, exp |-> 0]

\* A string that is not three base64url segments.
GarbageToken == [form |-> "garbage", alg |-> None, payload |-> NoPayload,
                 sig |-> HMAC(None, None, NoPayload)]

\* jose.jwt.encode(claims, key, algorithm): the exp datetime becomes whole
\* seconds; a key that is not a string raises JWSError.
jwt_encode(claims, key, algorithm) ==
    IF key = None
    THEN [exc |-> "JWSError", token |-> GarbageToken]
    ELSE LET payload == [sub |-> claims.sub, role |-> claims.role,
                         exp |-> timegm(claims.exp)]
         IN [exc |-> "",
             token |-> [form |-> "jws", alg |-> algorithm, payload |-> payload,
                        sig |-> HMAC(key, algorithm, payload)]]

Expired_Strict(exp, t) == exp <= timegm(t)
\* jose's expiry validation: the token is expired when exp < now, both in
\* whole seconds.
Expired(exp, t) == exp < timegm(t)

\* jose.jwt.decode(token, key, algorithms) at time t.  JWSError and
\* JWTClaimsError reach the caller as JWTError; a key that is not a string
\* raises JWKError, which is not a JWTError.
jwt_decode(token, key, algorithms, t) ==
    IF token.form # "jws" THEN [exc |-> "JWTError", payload |-> NoPayload]
    ELSE IF token.alg \notin algorithms THEN [exc |-> "JWTError", payload |-> NoPayload]
    ELSE IF key = None THEN [exc |-> "JWKError", payload |-> NoPayload]
    ELSE IF token.sig # HMAC(key, token.alg, token.payload)
         THEN [exc |-> "JWTError", payload |-> NoPayload]
    ELSE IF Expired(token.payload.exp, t) THEN [exc |-> "JWTError", payload |-> NoPayload]
    ELSE IF token.payload.sub = NonStr THEN [exc |-> "JWTError", payload |-> NoPayload]
    ELSE [exc |-> "", payload |-> token.payload]

\* datetime.now(timezone.utc) + timedelta(minutes=ACCESS_TOKEN_EXPIRE_MINUTES)
DefaultLifetime == ACCESS_TOKEN_EXPIRE_MINUTES * SecondsPerMinute * TicksPerSecond

\* expires_delta: None, or a timedelta of so many ticks.
NoDelta == [is_none |-> TRUE, ticks |-> 0]
Delta(n) == [is_none |-> FALSE, ticks |-> n]
\* Python's truth value of "timedelta | None": a zero timedelta is false.
Truthy(expires_delta) == ~expires_delta.is_none /\ expires_delta.ticks # 0

\* create_access_token(data, expires_delta) called at time t.
create_access_token(data, expires_delta, t) ==
    LET expire == IF Truthy(expires_delta)
                  THEN t + expires_delta.ticks
                  ELSE t + DefaultLifetime
        to_encode == [sub |-> data.sub, role |-> data.role, exp |-> expire]
    IN jwt_encode(to_encode, SECRET_KEY, ALGORITHM)

\* TokenData | None
Absent == [present |-> FALSE, username |-> None, role |-> None]
TokenData(username, role) == [present |-> TRUE, username |-> username, role |-> role]

\* decode_access_token(token) called at time t: raised is "" when the call
\* returns, else the exception that leaves it.
decode_access_token(token, t) ==
    LET r == jwt_decode(token, SECRET_KEY, {ALGORITHM}, t)
    IN IF r.exc = "JWTError" THEN [raised |-> "", data |-> Absent]
       ELSE IF r.exc # "" THEN [raised |-> r.exc, data |-> Absent]
       ELSE IF r.payload.sub = None THEN [raised |-> "", data |-> Absent]
       ELSE IF r.payload.role = NonStr
            THEN [raised |-> "ValidationError", data |-> Absent]
       ELSE [raised |-> "", data |-> TokenData(r.payload.sub, r.payload.role)]

\* ------------------------------------------------------- credential hasher

\* The salt of a hash: passlib's argon2 handler draws 16 random bytes for
\* every call of hash.  The k-th salt the random source hands out is written
\* k; no salt is handed out twice.
generate_salt == entropy + 1

hash_password_FixedSalt(password, salt) ==
    [scheme |-> "argon2", salt |-> 1, pw |-> password]
\* pwd_context.hash(password): the argon2 string embeds the scheme, the salt
\* drawn for this call and the digest of password under that salt.
hash_password(password, salt) == [scheme |-> "argon2", salt |-> salt, pw |-> password]

\* Strings that column hashed_password can hold and hash_password does not
\* return: the empty string, a hash cut off before its digest, and a hash of
\* a scheme that pwd_context does not list (the "$2b$..." of the docstrings).
EmptyString == [scheme |-> "", salt |-> 0, pw |-> ""]
Truncated(hash) == [hash EXCEPT !.pw = ""]
OtherScheme(hash) == [hash EXCEPT !.scheme = "bcrypt"]

\* A string with the structure of an argon2 hash: identifier, salt, digest.
WellFormed(hash) == hash.scheme = "argon2" /\ hash.salt # 0 /\ hash.pw # ""

pwd_context_verify_AnyPassword(secret, hash) ==
    IF hash.scheme # "argon2" THEN [exc |-> "UnknownHashError", ok |-> FALSE]
    ELSE IF ~WellFormed(hash) THEN [exc |-> "ValueError", ok |-> FALSE]
    ELSE [exc |-> "", ok |-> TRUE]
\* passlib's CryptContext(schemes=["argon2"]).verify(secret, hash): a string
\* that no listed scheme identifies raises UnknownHashError; one that argon2
\* identifies and cannot parse raises a ValueError; otherwise the digest is
\* recomputed under the embedded salt and compared.
pwd_context_verify(secret, hash) ==
    IF hash.scheme # "argon2" THEN [exc |-> "UnknownHashError", ok |-> FALSE]
    ELSE IF ~WellFormed(hash) THEN [exc |-> "ValueError", ok |-> FALSE]
    ELSE [exc |-> "", ok |-> hash = hash_password(secret, hash.salt)]

\* verify_password(plain_password, hashed_password): what pwd_context.verify
\* returns or raises.
verify_password(plain_password, hashed_password) ==
    pwd_context_verify(plain_password, hashed_password)

\* ---------------------------------------------------------- identity store

\* Python's None where a hash string is expected.
NoHash == [scheme |-> None, salt |-> 0, pw |-> None]
\* Python's None where a User row is expected.
NoUser == [id |-> 0, username |-> None, email |-> None, hashed_password |-> NoHash,
           role |-> None, is_active |-> 0]

\* db.query(User).filter(User.username == name).first()
first_by_username(name) ==
    LET found == {u \in users : u.username = name}
    IN IF found = {} THEN NoUser
       ELSE CHOOSE u \in found : \A v \in found : u.id <= v.id

\* db.query(User).filter(User.email == email).first()
first_by_email(email) ==
    LET found == {u \in users : u.email = email}
    IN IF found = {} THEN NoUser
       ELSE CHOOSE u \in found : \A v \in found : u.id <= v.id

\* ------------------------------------------------------------- responses

\* The JSON body of a response that carries no user.
NoBody == [id |-> 0, username |-> None, email |-> None, role |-> None,
           is_active |-> FALSE]

UserResponse_WithHash(row) ==
    [id |-> row.id, username |-> row.username, email |-> row.email,
     role |-> row.role, is_active |-> row.is_active # 0,
     hashed_password |-> row.hashed_password]
\* response_model=UserResponse: the fields of the schema are read off the
\* row (from_attributes) and nothing else is serialized; is_active becomes a
\* bool and role its wire string.
UserResponse(row) ==
    [id |-> row.id, username |-> row.username, email |-> row.email,
     role |-> row.role, is_active |-> row.is_active # 0]

\* A response: status, detail and WWW-Authenticate header of an error; the
\* object the dependency or handler returned (user), and what is serialized
\* of it into the body: a user (body) or a token (access_token, token_type).
Response(status, detail, www) ==
    [status |-> status, detail |-> detail, www |-> www, user |-> NoUser,
     body |-> NoBody, access_token |-> GarbageToken, token_type |-> None]

\* The dependency returns the user and the endpoint runs.
Accept(user) == [Response(200, "", None) EXCEPT !.user = user]
\* The dependency returns None and the endpoint runs.
Anonymous == Response(200, "", None)
\* An exception no handler catches: the framework answers 500.
InternalServerError == Response(500, "Internal Server Error", None)

credentials_exception ==
    Response(401, "Impossible de valider les identifiants", "Bearer")

\* fastapi.security.HTTPBearer with auto_error=True, on a request whose
\* Authorization header is absent or empty ("absent") or of another scheme
\* ("basic"): 403 in the releases before 0.122, 401 with WWW-Authenticate
\* since.  Which release is installed is fixed by the deployment.
security_error(hdr) ==
    IF environ.fastapi = "legacy"
    THEN Response(403, IF hdr = "absent" THEN "Not authenticated"
                       ELSE "Invalid authentication credentials", None)
    ELSE Response(401, "Not authenticated", "Bearer")

\* ------------------------------------------------ authorization pipeline

get_current_user_DisabledIs401(hdr, token) ==
    IF hdr # "bearer" THEN security_error(hdr)
    ELSE LET token_data == decode_access_token(token, now)
         IN IF token_data.raised # "" THEN InternalServerError
            ELSE IF ~token_data.data.present \/ token_data.data.username = None
                 THEN credentials_exception
            ELSE LET user == first_by_username(token_data.data.username)
                 IN IF user = NoUser \/ user.is_active = 0 THEN credentials_exception
                    ELSE Accept(user)
get_current_user_NoActiveCheck(hdr, token) ==
    IF hdr # "bearer" THEN security_error(hdr)
    ELSE LET token_data == decode_access_token(token, now)
         IN IF token_data.raised # "" THEN InternalServerError
            ELSE IF ~token_data.data.present \/ token_data.data.username = None
                 THEN credentials_exception
            ELSE LET user == first_by_username(token_data.data.username)
                 IN IF user = NoUser THEN credentials_exception
                    ELSE Accept(user)
get_current_user_Leaky(hdr, token) ==
    IF hdr # "bearer" THEN security_error(hdr)
    ELSE LET token_data == decode_access_token(token, now)
         IN IF token_data.raised # "" THEN InternalServerError
            ELSE IF ~token_data.data.present \/ token_data.data.username = None
                 THEN credentials_exception
            ELSE LET user == first_by_username(token_data.data.username)
                 IN IF user = NoUser
                    THEN Response(401, "Utilisateur introuvable", "Bearer")
                    ELSE IF user.is_active = 0
                         THEN Response(403, "Compte désactivé", None)
                    ELSE Accept(user)
\* get_current_user(credentials = Depends(security), db)
get_current_user(hdr, token) ==
    IF hdr # "bearer" THEN security_error(hdr)
    ELSE LET token_data == decode_access_token(token, now)
         IN IF token_data.raised # "" THEN InternalServerError
            ELSE IF ~token_data.data.present \/ token_data.data.username = None
                 THEN credentials_exception
            ELSE LET user == first_by_username(token_data.data.username)
                 IN IF user = NoUser THEN credentials_exception
                    ELSE IF user.is_active = 0
                         THEN Response(403, "Compte désactivé", None)
                    ELSE Accept(user)

\* get_current_user_profile(current_user = Depends(get_current_user)): the
\* user the dependency returned, serialized by response_model=UserResponse.
get_current_user_profile(hdr, token) ==
    LET current_user == get_current_user(hdr, token)
    IN IF current_user.status # 200 THEN current_user
       ELSE [current_user EXCEPT !.body = UserResponse(current_user.user)]

require_admin_EitherRole(hdr, token) ==
    LET current_user == get_current_user(hdr, token)
    IN IF current_user.status # 200 THEN current_user
       ELSE IF current_user.user.role # Role_ADMIN /\ token.payload.role # Role_ADMIN
            THEN Response(403, "Accès réservé aux administrateurs", None)
       ELSE current_user
require_admin_TokenRole(hdr, token) ==
    LET current_user == get_current_user(hdr, token)
    IN IF current_user.status # 200 THEN current_user
       ELSE IF token.payload.role # Role_ADMIN
            THEN Response(403, "Accès réservé aux administrateurs", None)
       ELSE current_user
\* require_admin(current_user = Depends(get_current_user))
require_admin(hdr, token) ==
    LET current_user == get_current_user(hdr, token)
    IN IF current_user.status # 200 THEN current_user
       ELSE IF current_user.user.role # Role_ADMIN
            THEN Response(403, "Accès réservé aux administrateurs", None)
       ELSE current_user

get_current_user_optional_IgnoresActive(hdr, token) ==
    IF hdr # "bearer" THEN Anonymous
    ELSE LET token_data == decode_access_token(token, now)
         IN IF token_data.raised # "" THEN InternalServerError
            ELSE IF ~token_data.data.present \/ token_data.data.username = None
                 THEN Anonymous
            ELSE LET user == first_by_username(token_data.data.username)
                 IN IF user = NoUser THEN Anonymous ELSE Accept(user)
get_current_user_optional_Strict(hdr, token) ==
    IF hdr # "bearer" THEN Anonymous
    ELSE LET r == get_current_user(hdr, token)
         IN IF r.status = 403 THEN r ELSE IF r.status = 200 THEN r ELSE Anonymous
\* get_current_user_optional(credentials = Depends(HTTPBearer(auto_error=False)), db)
get_current_user_optional(hdr, token) ==
    IF hdr # "bearer" THEN Anonymous
    ELSE LET token_data == decode_access_token(token, now)
         IN IF token_data.raised # "" THEN InternalServerError
            ELSE IF ~token_data.data.present \/ token_data.data.username = None
                 THEN Anonymous
            ELSE LET user == first_by_username(token_data.data.username)
                 IN IF user = NoUser \/ user.is_active = 0 THEN Anonymous
                    ELSE Accept(user)

\* ----------------------------------------------------------------- state

NoLast == [op |-> "none", hdr |-> "absent", token |-> GarbageToken,
           username |-> None, email |-> None, password |-> None, role |-> None,
           id |-> 0, nom |-> None, numero |-> None, statut |-> None,
           resp |-> Response(0, "", None)]

NoCall == [made |-> FALSE, data |-> [sub |-> None, role |-> None],
           expires_delta |-> NoDelta, at |-> 0, exc |-> "", token |-> GarbageToken]
NoDec == [made |-> FALSE, token |-> GarbageToken, at |-> 0, altered |-> "",
          raised |-> "", data |-> Absent]
\* A register request: where its handler stands (pc), its body (user), the
\* row it has added to its session (db_user) and its response.
Requests == 1 .. MaxRequests
NoUserCreate == [username |-> None, email |-> None, password |-> None, role |-> None]
Idle == [pc |-> "idle", user |-> NoUserCreate, db_user |-> NoUser,
         resp |-> Response(0, "", None)]
NoRequests == [r \in Requests |-> Idle]
\* No row has been inserted into the business tables.
NoRows == [clients |-> 0, factures |-> 0, reclamations |-> 0]
NoVer == [made |-> FALSE, plain_password |-> None, hashed_password |-> NoHash,
          exc |-> "", ok |-> FALSE]

InitCommon ==
    /\ proc = "startup"
    /\ SECRET_KEY = None
    /\ now \in 0 .. (TicksPerSecond - 1)
    /\ users = {}
    /\ last = NoLast
    /\ call = NoCall
    /\ held = GarbageToken
    /\ dec = NoDec
    /\ entropy = 0
    /\ hashed = <<>>
    /\ ver = NoVer
    /\ inflight = NoRequests
    /\ clients = {}
    /\ factures = {}
    /\ reclamations = {}
    /\ autoinc = NoRows

\* A deployment whose environment sets SECRET_KEY.
Init ==
    /\ environ \in [SECRET_KEY : ConfiguredSecrets, fastapi : {"legacy", "current"},
                   sql_mode : {STRICT_TRANS_TABLES}]
    /\ InitCommon

\* Any environment the process can be started in.
InitStartup ==
    /\ environ \in [SECRET_KEY : EnvSecrets, fastapi : {"legacy", "current"},
                   sql_mode : {STRICT_TRANS_TABLES}]
    /\ InitCommon

\* ------------------------------------------------------- request inputs

\* Expiry claims, in whole seconds, of the tokens presented at the current
\* time: a second ago, this second, the next, and a default lifetime ahead.
ExpChoices ==
    {e \in {timegm(now) - 1, timegm(now), timegm(now) + 1,
            timegm(now + DefaultLifetime)} : e >= 0}

Payloads == [sub : Names \cup {None}, role : Roles \cup {None}, exp : ExpChoices]
\* Claims a caller writes into a token it signs or alters itself.
ForgedPayloads == [sub : {"alice"}, role : Roles, exp : {timegm(now) + 1}]
IllTypedPayloads == [sub : {"alice", NonStr}, role : {NonStr}, exp : {timegm(now) + 1}]

\* What was done to a token: "ok" is a token signed by this server under
\* SECRET_KEY and ALGORITHM; the others are the token strings a caller
\* without the secret can build.
SignedToken(key, alg, payload) ==
    [form |-> "jws", alg |-> alg, payload |-> payload, sig |-> HMAC(key, alg, payload)]
PromotedRole(payload) ==
    [payload EXCEPT !.role = IF @ = Role_ADMIN THEN Role_USER ELSE Role_ADMIN]
Forge(how, payload) ==
    CASE how = "ok" -> SignedToken(SECRET_KEY, ALGORITHM, payload)
      [] how = "wrong_key" -> SignedToken(OtherSecret, ALGORITHM, payload)
      [] how = "flipped_sig" ->
            [SignedToken(SECRET_KEY, ALGORITHM, payload) EXCEPT !.sig = FlipBit(@)]
      [] how = "other_alg" -> SignedToken(SECRET_KEY, OtherAlgorithm, payload)
      [] how = "altered_payload" ->
            [SignedToken(SECRET_KEY, ALGORITHM, PromotedRole(payload))
                EXCEPT !.payload = payload]

Forgeries == {"wrong_key", "flipped_sig", "other_alg", "altered_payload"}

\* The token strings a request can carry: tokens of this server with claims
\* of the types login writes, and everything a caller can make up.
RequestTokens ==
    {GarbageToken}
    \cup {Forge("ok", p) : p \in Payloads}
    \cup {Forge(how, p) : how \in Forgeries, p \in ForgedPayloads}
    \cup {Forge(how, p) : how \in Forgeries, p \in IllTypedPayloads}

\* The Authorization header of a request: absent, of another scheme, or
\* "Bearer <token>".
RequestInputs ==
    {<<hdr, GarbageToken>> : hdr \in {"absent", "basic"}}
    \cup {<<"bearer", token>> : token \in RequestTokens}

Request(op, hdr, token, resp) ==
    [NoLast EXCEPT !.op = op, !.hdr = hdr, !.token = token,
                   !.resp = resp]

\* ---------------------------------------------------------------- actions

\* Import of auth/jwt.py: the configuration is read, nothing is checked.
Startup ==
    /\ proc = "startup"
    /\ proc' = "serving"
    /\ SECRET_KEY' = environ.SECRET_KEY
    /\ UNCHANGED <<environ, now, users, last, call, held, dec,
                 entropy, hashed, ver, inflight,
                 clients, factures, reclamations, autoinc>>

\* The response of the last request has been sent; the next request is read.
Respond ==
    /\ last.op # "none"
    /\ last' = NoLast
    /\ UNCHANGED <<environ, proc, SECRET_KEY, now, users, call, held, dec,
                 entropy, hashed, ver, inflight,
                 clients, factures, reclamations, autoinc>>

\* Time passes: a tick, or a default token lifetime at once.
Tick ==
    /\ \/ /\ now % DefaultLifetime < MaxElapsed
          /\ now' = now + 1
       \/ /\ now < DefaultLifetime
          /\ now' = now + DefaultLifetime
    /\ last' = NoLast
    /\ UNCHANGED <<environ, proc, SECRET_KEY, users, call, held, dec,
                 entropy, hashed, ver, inflight,
                 clients, factures, reclamations, autoinc>>

\* GET /auth/me, the endpoint that depends on get_current_user.
GetCurrentUser ==
    /\ proc = "serving"
    /\ last.op = "none"
    /\ \E in \in RequestInputs :
          last' = Request("get_current_user", in[1], in[2],
                          get_current_user_profile(in[1], in[2]))
    /\ UNCHANGED <<environ, proc, SECRET_KEY, now, users, call, held, dec,
                 entropy, hashed, ver, inflight,
                 clients, factures, reclamations, autoinc>>

\* An endpoint that depends on require_admin.
RequireAdmin ==
    /\ proc = "serving"
    /\ last.op = "none"
    /\ \E in \in RequestInputs :
          last' = Request("require_admin", in[1], in[2], require_admin(in[1], in[2]))
    /\ UNCHANGED <<environ, proc, SECRET_KEY, now, users, call, held, dec,
                 entropy, hashed, ver, inflight,
                 clients, factures, reclamations, autoinc>>

\* An endpoint that depends on get_current_user_optional.
GetCurrentUserOptional ==
    /\ proc = "serving"
    /\ last.op = "none"
    /\ \E in \in RequestInputs :
          last' = Request("get_current_user_optional", in[1], in[2],
                          get_current_user_optional(in[1], in[2]))
    /\ UNCHANGED <<environ, proc, SECRET_KEY, now, users, call, held, dec,
                 entropy, hashed, ver, inflight,
                 clients, factures, reclamations, autoinc>>

UsernameTaken == Response(400, "Ce nom d'utilisateur existe déjà", None)
EmailTaken == Response(400, "Cet email est déjà utilisé", None)

\* UserCreate, parsed from a request body: a body without role gets
\* Role.USER.
UserCreate(username, email, password, role) ==
    [username |-> username, email |-> email, password |-> password,
     role |-> IF role = None THEN Role_USER ELSE role]

User_StandardRole(user, salt) ==
    [id |-> Cardinality(users) + 1,
     username |-> user.username,
     email |-> user.email,
     hashed_password |-> hash_password(user.password, salt),
     role |-> Role_USER,
     is_active |-> 1]
\* User(username=..., email=..., hashed_password=hash_password(...), role=...,
\* is_active=1); the id is the next value of the auto-increment key.
User(user, salt) ==
    [id |-> Cardinality(users) + 1,
     username |-> user.username,
     email |-> user.email,
     hashed_password |-> hash_password(user.password, salt),
     role |-> user.role,
     is_active |-> 1]

\* status_code=201 and the row, serialized by response_model=UserResponse.
Created(db_user) ==
    [Response(201, "", None) EXCEPT !.user = db_user, !.body = UserResponse(db_user)]

register_Overwrite(user, salt) ==
    IF first_by_username(user.username) # NoUser
    THEN LET db_user == [first_by_username(user.username)
                            EXCEPT !.hashed_password = hash_password(user.password, salt)]
         IN [resp |-> Created(db_user),
             users |-> (users \ {first_by_username(user.username)}) \cup {db_user},
             entropy |-> entropy + 1]
    ELSE IF first_by_email(user.email) # NoUser
    THEN [resp |-> EmailTaken, users |-> users, entropy |-> entropy]
    ELSE LET db_user == User(user, salt)
         IN [resp |-> Created(db_user), users |-> users \cup {db_user},
             entropy |-> entropy + 1]
register_NoEmailCheck(user, salt) ==
    IF first_by_username(user.username) # NoUser
    THEN [resp |-> UsernameTaken, users |-> users, entropy |-> entropy]
    ELSE LET db_user == User(user, salt)
         IN [resp |-> Created(db_user), users |-> users \cup {db_user},
             entropy |-> entropy + 1]
\* POST /auth/register, handled without another request in between: the
\* response, the table and the number of salts drawn after it.
register(user, salt) ==
    IF first_by_username(user.username) # NoUser
    THEN [resp |-> UsernameTaken, users |-> users, entropy |-> entropy]
    ELSE IF first_by_email(user.email) # NoUser
    THEN [resp |-> EmailTaken, users |-> users, entropy |-> entropy]
    ELSE LET db_user == User(user, salt)
         IN [resp |-> Created(db_user), users |-> users \cup {db_user},
             entropy |-> entropy + 1]

\* The request carries no credentials: register has no security dependency.
Register ==
    /\ proc = "serving"
    /\ last.op = "none"
    /\ \E username \in Names, email \in Emails, password \in Passwords,
          role \in Roles \cup {None} :
          LET r == register(UserCreate(username, email, password, role), generate_salt)
          IN /\ users' = r.users
             /\ entropy' = r.entropy
             /\ last' = [NoLast EXCEPT !.op = "register", !.username = username,
                                       !.email = email, !.password = password,
                                       !.role = role, !.resp = r.resp]
    /\ UNCHANGED <<environ, proc, SECRET_KEY, now, call, held, dec,
                 hashed, ver, inflight,
                 clients, factures, reclamations, autoinc>>

IncorrectCredentials == Response(401, "Identifiants incorrects", "Bearer")

\* return {"access_token": access_token, "token_type": "bearer"}
Token(access_token) ==
    IF access_token.exc # "" THEN InternalServerError
    ELSE [Response(200, "", None) EXCEPT !.access_token = access_token.token,
                                         !.token_type = "bearer"]

login_UnknownUser(credentials) ==
    LET user == first_by_username(credentials.username)
    IN IF user = NoUser THEN Response(401, "Utilisateur inconnu", "Bearer")
       ELSE LET match == verify_password(credentials.password, user.hashed_password)
            IN IF match.exc # "" THEN InternalServerError
               ELSE IF ~match.ok THEN IncorrectCredentials
               ELSE IF user.is_active = 0 THEN Response(403, "Compte désactivé", None)
               ELSE Token(create_access_token(
                              [sub |-> user.username, role |-> user.role], NoDelta, now))
login_NoActiveCheck(credentials) ==
    LET user == first_by_username(credentials.username)
    IN IF user = NoUser THEN IncorrectCredentials
       ELSE LET match == verify_password(credentials.password, user.hashed_password)
            IN IF match.exc # "" THEN InternalServerError
               ELSE IF ~match.ok THEN IncorrectCredentials
               ELSE Token(create_access_token(
                              [sub |-> user.username, role |-> user.role], NoDelta, now))
login_EmailAsSubject(credentials) ==
    LET user == first_by_username(credentials.username)
    IN IF user = NoUser THEN IncorrectCredentials
       ELSE LET match == verify_password(credentials.password, user.hashed_password)
            IN IF match.exc # "" THEN InternalServerError
               ELSE IF ~match.ok THEN IncorrectCredentials
               ELSE IF user.is_active = 0 THEN Response(403, "Compte désactivé", None)
               ELSE Token(create_access_token(
                              [sub |-> user.email, role |-> user.role], NoDelta, now))
\* POST /auth/login.  "not user or not verify_password(...)" calls
\* verify_password only for a row that was found; an exception that leaves
\* it is caught nowhere.
login(credentials) ==
    LET user == first_by_username(credentials.username)
    IN IF user = NoUser THEN IncorrectCredentials
       ELSE LET match == verify_password(credentials.password, user.hashed_password)
            IN IF match.exc # "" THEN InternalServerError
               ELSE IF ~match.ok THEN IncorrectCredentials
               ELSE IF user.is_active = 0 THEN Response(403, "Compte désactivé", None)
               ELSE Token(create_access_token(
                              [sub |-> user.username, role |-> user.role], NoDelta, now))

Login ==
    /\ proc = "serving"
    /\ last.op = "none"
    /\ \E username \in Names, password \in LoginPasswords :
          last' = [NoLast EXCEPT !.op = "login", !.username = username,
                                 !.password = password,
                                 !.resp = login([username |-> username,
                                                 password |-> password])]
    /\ UNCHANGED <<environ, proc, SECRET_KEY, now, users, call, held, dec,
                 entropy, hashed, ver, inflight,
                 clients, factures, reclamations, autoinc>>

\* An administrator changes is_active of a row directly in the database; no
\* endpoint of the application does.
SetActive ==
    /\ \E u \in users, flag \in {0, 1} :
          /\ u.is_active # flag
          /\ users' = (users \ {u}) \cup {[u EXCEPT !.is_active = flag]}
    /\ last' = NoLast
    /\ UNCHANGED <<environ, proc, SECRET_KEY, now, call, held, dec,
                 entropy, hashed, ver, inflight,
                 clients, factures, reclamations, autoinc>>

Next ==
    \/ Startup
    \/ Respond
    \/ Tick
    \/ GetCurrentUser
    \/ RequireAdmin
    \/ GetCurrentUserOptional
    \/ Register
    \/ Login
    \/ SetActive

Spec == Init /\ [][Next]_vars

SpecStartup == InitStartup /\ [][Next]_vars

\* ------------------------------------------------- the codec on its own

\* Claim sets passed to create_access_token: a name or none as subject, a
\* role string, none, or a value that is not a string as role.
CodecData == [sub : {"alice", None, NonStr}, role : {Role_USER, None, NonStr}]
CodecDeltas == {NoDelta} \cup {Delta(n) : n \in 0 .. MaxDelta}

\* What a holder of a token string can turn it into without the secret.
Alter(how, token) ==
    CASE how = "garbage" -> GarbageToken
      [] how = "wrong_key" -> SignedToken(OtherSecret, token.alg, token.payload)
      [] how = "flipped_sig" -> [token EXCEPT !.sig = FlipBit(@)]
      [] how = "other_alg" -> [token EXCEPT !.alg = OtherAlgorithm]
      [] how = "altered_payload" -> [token EXCEPT !.payload = PromotedRole(@)]

InitCodec ==
    /\ environ \in [SECRET_KEY : ConfiguredSecrets, fastapi : {"legacy", "current"},
                   sql_mode : {STRICT_TRANS_TABLES}]
    /\ proc = "serving"
    /\ SECRET_KEY = environ.SECRET_KEY
    /\ now \in 0 .. (TicksPerSecond - 1)
    /\ users = {}
    /\ last = NoLast
    /\ call = NoCall
    /\ held = GarbageToken
    /\ dec = NoDec
    /\ entropy = 0
    /\ hashed = <<>>
    /\ ver = NoVer
    /\ inflight = NoRequests
    /\ clients = {}
    /\ factures = {}
    /\ reclamations = {}
    /\ autoinc = NoRows

\* create_access_token(data, expires_delta) is called and its token kept.
CodecIssue ==
    /\ ~call.made
    /\ \E data \in CodecData, expires_delta \in CodecDeltas :
          LET r == create_access_token(data, expires_delta, now)
          IN /\ call' = [made |-> TRUE, data |-> data, expires_delta |-> expires_delta,
                         at |-> now, exc |-> r.exc, token |-> r.token]
             /\ held' = r.token
    /\ dec' = NoDec
    /\ UNCHANGED <<environ, proc, SECRET_KEY, now, users, last,
                 entropy, hashed, ver, inflight,
                 clients, factures, reclamations, autoinc>>

\* The holder alters the token string.
CodecAlter ==
    /\ call.made
    /\ held = call.token
    /\ held.form = "jws"
    /\ \E how \in Forgeries \cup {"garbage"} : held' = Alter(how, held)
    /\ dec' = NoDec
    /\ UNCHANGED <<environ, proc, SECRET_KEY, now, users, last, call,
                 entropy, hashed, ver, inflight,
                 clients, factures, reclamations, autoinc>>

CodecTick ==
    /\ now < MaxCodecNow
    /\ now' = now + 1
    /\ dec' = NoDec
    /\ UNCHANGED <<environ, proc, SECRET_KEY, users, last, call, held,
                 entropy, hashed, ver, inflight,
                 clients, factures, reclamations, autoinc>>

\* decode_access_token(held) is called.
CodecDecode ==
    /\ call.made
    /\ LET r == decode_access_token(held, now)
       IN dec' = [made |-> TRUE, token |-> held, at |-> now,
                  altered |-> IF held = call.token THEN "" ELSE "yes",
                  raised |-> r.raised, data |-> r.data]
    /\ UNCHANGED <<environ, proc, SECRET_KEY, now, users, last, call, held,
                 entropy, hashed, ver, inflight,
                 clients, factures, reclamations, autoinc>>

NextCodec ==
    \/ CodecIssue
    \/ CodecAlter
    \/ CodecTick
    \/ CodecDecode

SpecCodec == InitCodec /\ [][NextCodec]_vars

\* A serving process with an empty table.
InitServing ==
    /\ environ \in [SECRET_KEY : ConfiguredSecrets, fastapi : {"legacy", "current"},
                   sql_mode : {STRICT_TRANS_TABLES}]
    /\ proc = "serving"
    /\ SECRET_KEY = environ.SECRET_KEY
    /\ now = 0
    /\ users = {}
    /\ last = NoLast
    /\ call = NoCall
    /\ held = GarbageToken
    /\ dec = NoDec
    /\ entropy = 0
    /\ hashed = <<>>
    /\ ver = NoVer
    /\ inflight = NoRequests
    /\ clients = {}
    /\ factures = {}
    /\ reclamations = {}
    /\ autoinc = NoRows

\* ------------------------------------------------ the hasher on its own

\* The strings verify_password can be handed: what hash_password returned,
\* and the strings it never returns.
Returned == {hashed[i].hash : i \in 1 .. Len(hashed)}
StoredStrings ==
    Returned \cup {EmptyString}
    \cup {Truncated(hash) : hash \in Returned}
    \cup {OtherScheme(hash) : hash \in Returned}

\* hash_password(password) is called.
HashPassword ==
    /\ entropy < MaxHashes
    /\ \E password \in LoginPasswords :
          hashed' = Append(hashed, [password |-> password,
                                    hash |-> hash_password(password, generate_salt)])
    /\ entropy' = entropy + 1
    /\ UNCHANGED <<environ, proc, SECRET_KEY, now, users, last, call, held, dec,
                   ver, inflight,
                   clients, factures, reclamations, autoinc>>

\* verify_password(plain_password, hashed_password) is called.
VerifyPassword ==
    /\ \E plain_password \in LoginPasswords, hashed_password \in StoredStrings :
          LET r == verify_password(plain_password, hashed_password)
          IN ver' = [made |-> TRUE, plain_password |-> plain_password,
                     hashed_password |-> hashed_password, exc |-> r.exc, ok |-> r.ok]
    /\ UNCHANGED <<environ, proc, SECRET_KEY, now, users, last, call, held, dec,
                   entropy, hashed, inflight,
                   clients, factures, reclamations, autoinc>>

\* A row of table users written by another program than this one (an import,
\* a deployment that hashed with another scheme): column hashed_password is
\* a String(255) and holds what was written.
StoreUser ==
    /\ Cardinality(users) < MaxStoredRows
    /\ last.op = "none"
    /\ \E username \in Names, email \in Emails, hashed_password \in StoredStrings :
          /\ first_by_username(username) = NoUser
          /\ first_by_email(email) = NoUser
          /\ users' = users \cup {[id |-> Cardinality(users) + 1,
                                    username |-> username,
                                    email |-> email,
                                    hashed_password |-> hashed_password,
                                    role |-> Role_USER,
                                    is_active |-> 1]}
    /\ UNCHANGED <<environ, proc, SECRET_KEY, now, last, call, held, dec,
                   entropy, hashed, ver, inflight,
                   clients, factures, reclamations, autoinc>>

\* hash_password and verify_password as functions.
NextHasher ==
    \/ HashPassword
    \/ VerifyPassword

SpecHasher == InitServing /\ [][NextHasher]_vars

\* The hasher, and login against rows whose hash the application did not
\* write.
NextStored ==
    \/ HashPassword
    \/ VerifyPassword
    \/ StoreUser
    \/ Login
    \/ Respond

SpecStored == InitServing /\ [][NextStored]_vars

\* ------------------------------------------- a token kept and presented

\* The caller keeps the token of a login response; call is the
\* create_access_token call of that login.
Keep ==
    /\ last.op = "login"
    /\ last.resp.status = 200
    /\ call.token # last.resp.access_token \/ call.at # now
    /\ held' = last.resp.access_token
    /\ call' = [made |-> TRUE,
                data |-> [sub |-> last.resp.access_token.payload.sub,
                          role |-> last.resp.access_token.payload.role],
                expires_delta |-> NoDelta, at |-> now, exc |-> "",
                token |-> last.resp.access_token]
    /\ UNCHANGED <<environ, proc, SECRET_KEY, now, users, last, dec,
                   entropy, hashed, ver, inflight,
                   clients, factures, reclamations, autoinc>>

\* GET /auth/me with the kept token.
GetCurrentUserHeld ==
    /\ proc = "serving"
    /\ last.op = "none"
    /\ held # GarbageToken
    /\ last' = Request("get_current_user", "bearer", held,
                       get_current_user_profile("bearer", held))
    /\ UNCHANGED <<environ, proc, SECRET_KEY, now, users, call, held, dec,
                   entropy, hashed, ver, inflight,
                   clients, factures, reclamations, autoinc>>

\* An endpoint that depends on require_admin, with the kept token.
RequireAdminHeld ==
    /\ proc = "serving"
    /\ last.op = "none"
    /\ held # GarbageToken
    /\ last' = Request("require_admin", "bearer", held, require_admin("bearer", held))
    /\ UNCHANGED <<environ, proc, SECRET_KEY, now, users, call, held, dec,
                   entropy, hashed, ver, inflight,
                   clients, factures, reclamations, autoinc>>

\* An endpoint that depends on get_current_user_optional, with the kept token.
GetCurrentUserOptionalHeld ==
    /\ proc = "serving"
    /\ last.op = "none"
    /\ held # GarbageToken
    /\ last' = Request("get_current_user_optional", "bearer", held,
                       get_current_user_optional("bearer", held))
    /\ UNCHANGED <<environ, proc, SECRET_KEY, now, users, call, held, dec,
                   entropy, hashed, ver, inflight,
                   clients, factures, reclamations, autoinc>>

NextSession ==
    \/ Respond
    \/ Tick
    \/ Register
    \/ Login
    \/ SetActive
    \/ Keep
    \/ GetCurrentUserHeld
    \/ RequireAdminHeld
    \/ GetCurrentUserOptionalHeld

SpecSession == InitServing /\ [][NextSession]_vars

\* ------------------------------------------- registrations side by side

\* The unique indexes on users.username and users.email, as the database
\* enforces them when a row is inserted.
unique_violation_Off(row) == FALSE
unique_violation(row) ==
    \E u \in users : u.username = row.username \/ u.email = row.email

UserCreates == [username : Names, email : Emails, password : Passwords, role : Roles]

\* Request r arrives and its handler queries the table for the username.
RegisterQueryUsername(r) ==
    /\ inflight[r].pc = "idle"
    /\ \E user \in UserCreates :
          inflight' = [inflight EXCEPT ![r] =
              IF first_by_username(user.username) # NoUser
              THEN [Idle EXCEPT !.pc = "done", !.user = user, !.resp = UsernameTaken]
              ELSE [Idle EXCEPT !.pc = "query_email", !.user = user]]
    /\ UNCHANGED <<environ, proc, SECRET_KEY, now, users, last, call, held, dec,
                   entropy, hashed, ver,
                   clients, factures, reclamations, autoinc>>

\* The handler of r queries the table for the email, and on finding none
\* builds the row, hashing the password, and adds it to its session.
RegisterQueryEmail(r) ==
    /\ inflight[r].pc = "query_email"
    /\ IF first_by_email(inflight[r].user.email) # NoUser
       THEN /\ inflight' = [inflight EXCEPT ![r].pc = "done", ![r].resp = EmailTaken]
            /\ entropy' = entropy
       ELSE /\ inflight' = [inflight EXCEPT
                               ![r].pc = "commit",
                               ![r].db_user = [User(inflight[r].user, generate_salt)
                                                  EXCEPT !.id = 0]]
            /\ entropy' = entropy + 1
    /\ UNCHANGED <<environ, proc, SECRET_KEY, now, users, last, call, held, dec,
                   hashed, ver,
                   clients, factures, reclamations, autoinc>>

\* db.commit() of r: the INSERT is sent.  A row that violates a unique index
\* raises IntegrityError, which nothing catches; otherwise the row gets its
\* id, is stored, refreshed and returned.
RegisterCommit(r) ==
    /\ inflight[r].pc = "commit"
    /\ IF unique_violation(inflight[r].db_user)
       THEN /\ inflight' = [inflight EXCEPT ![r].pc = "done",
                                            ![r].db_user = NoUser,
                                            ![r].resp = InternalServerError]
            /\ users' = users
       ELSE LET db_user == [inflight[r].db_user EXCEPT !.id = Cardinality(users) + 1]
            IN /\ inflight' = [inflight EXCEPT ![r].pc = "done",
                                               ![r].db_user = db_user,
                                               ![r].resp = Created(db_user)]
               /\ users' = users \cup {db_user}
    /\ UNCHANGED <<environ, proc, SECRET_KEY, now, last, call, held, dec,
                   entropy, hashed, ver,
                   clients, factures, reclamations, autoinc>>

NextRegister ==
    \E r \in Requests :
        \/ RegisterQueryUsername(r)
        \/ RegisterQueryEmail(r)
        \/ RegisterCommit(r)

SpecRegister == InitServing /\ [][NextRegister]_vars

\* ------------------------------------- clients, invoices and complaints

\* class StatutFacture(str, enum.Enum) and class StatutReclamation(str,
\* enum.Enum): the members by name.  A member of a str enumeration equals
\* and hashes like its value, so a member is modelled by its value.
StatutFacture == [PAYE |-> "payé", IMPAYE |-> "impayé"]
StatutReclamation ==
    [OUVERTE |-> "ouverte", EN_COURS |-> "en_cours", RESOLUE |-> "resolue"]
Members(E) == {E[n] : n \in DOMAIN E}

\* Column(Enum(E)), bind side: sqlalchemy's Enum._db_value_for_elem looks the
\* element up among the members and the names and sends the NAME to the
\* database; a string it does not find is sent as it is (validate_strings
\* is False).
Enum_bind(E, elem) ==
    IF elem \in Members(E) THEN CHOOSE n \in DOMAIN E : E[n] = elem
    ELSE elem
\* The MySQL column ENUM(<names of E>) that create_all makes of it: a string
\* that is no element of the column is an error under a strict sql_mode and
\* is stored as '' otherwise.
ENUM_column(E, v) ==
    IF v \in DOMAIN E THEN [exc |-> "", stored |-> v]
    ELSE IF environ.sql_mode = STRICT_TRANS_TABLES
         THEN [exc |-> "DataError", stored |-> None]
    ELSE [exc |-> "", stored |-> ""]
\* Column(Enum(E)), result side: Enum._object_value_for_elem turns the stored
\* name into the member and raises LookupError for any other string.
Enum_result(E, v) ==
    IF v \in DOMAIN E THEN [exc |-> "", value |-> E[v]]
    ELSE [exc |-> "LookupError", value |-> None]

\* Python's None where a Client or a Reclamation row is expected.
NoClient == [id |-> 0, nom |-> None, email |-> None, telephone |-> None]
NoReclamation == [id |-> 0, sujet |-> None, statut |-> None, client_id |-> 0]

\* db.query(Client).filter(Client.id == client_id).first()
first_client(client_id) ==
    IF \E c \in clients : c.id = client_id
    THEN CHOOSE c \in clients : c.id = client_id
    ELSE NoClient
\* db.query(Reclamation).filter(Reclamation.id == reclamation_id).first()
first_reclamation(reclamation_id) ==
    IF \E r \in reclamations : r.id = reclamation_id
    THEN CHOOSE r \in reclamations : r.id = reclamation_id
    ELSE NoReclamation

Client_factures_Unloaded(client) == {}
\* Client.factures = relationship("Facture", cascade="all, delete-orphan"):
\* the invoices whose client_id is the client's id; db.delete(client)
\* deletes them with it.
Client_factures(client) == {f \in factures : f.client_id = client.id}
\* Client.reclamations = relationship("Reclamation", cascade="all,
\* delete-orphan")
Client_reclamations(client) == {r \in reclamations : r.client_id = client.id}

\* What a handler leaves behind: its response, the three tables and the
\* auto-increment counters.
Outcome(resp, c, f, r, a) ==
    [resp |-> resp, clients |-> c, factures |-> f, reclamations |-> r, autoinc |-> a]
Untouched(resp) == Outcome(resp, clients, factures, reclamations, autoinc)

\* ClientCreate: nom, email and the optional telephone (left out here).
ClientCreate(nom, email) == [nom |-> nom, email |-> email, telephone |-> None]
\* Two clients, and a third request that takes the name of one and the
\* email of the other.
ClientCreates ==
    {ClientCreate("Acme", "acme@x.com"), ClientCreate("Globex", "globex@x.com"),
     ClientCreate("Acme", "globex@x.com")}

\* POST /clients of main.py.  Client.nom and Client.email are unique: the
\* INSERT of a second row with either raises IntegrityError at commit, which
\* nothing catches; InnoDB has drawn the auto-increment value by then.
creer_client(client) ==
    LET id == autoinc.clients + 1
        drawn == [autoinc EXCEPT !.clients = id]
        db_client == [id |-> id, nom |-> client.nom, email |-> client.email,
                      telephone |-> client.telephone]
    IN IF \E c \in clients : c.nom = client.nom \/ c.email = client.email
       THEN Outcome(InternalServerError, clients, factures, reclamations, drawn)
       ELSE Outcome(Response(201, "", None), clients \cup {db_client}, factures,
                    reclamations, drawn)

\* DELETE /clients/{client_id} of main.py: its parameters are client_id and
\* the session, no security dependency.
supprimer_client(client_id) ==
    LET client == first_client(client_id)
    IN IF client = NoClient
       THEN Untouched(Response(404, "Client avec l'ID " \o ToString(client_id)
                                        \o " non trouvé", None))
       ELSE Outcome(Response(204, "", None), clients \ {client},
                    factures \ Client_factures(client),
                    reclamations \ Client_reclamations(client), autoinc)

\* DELETE /clients/{client_id} of routers/clients.py, behind
\* Depends(require_admin).
router_supprimer_client(hdr, token, client_id) ==
    LET admin == require_admin(hdr, token)
        client == first_client(client_id)
    IN IF admin.status # 200 THEN Untouched(admin)
       ELSE IF client = NoClient
       THEN Untouched(Response(404, "Client non trouvé", None))
       ELSE Outcome(Response(204, "", None), clients \ {client},
                    factures \ Client_factures(client),
                    reclamations \ Client_reclamations(client), autoinc)

\* FactureCreate: numero and statut (StatutFacture.IMPAYE when left out);
\* montant and date are carried into the row unchanged and left out here.
FactureCreate(numero, statut) ==
    [numero |-> numero, statut |-> IF statut = None THEN StatutFacture.IMPAYE ELSE statut]
FactureNumeros == {"FACT-001", "FACT-002"}

\* POST /clients/{client_id}/factures.  Facture.numero is unique.
creer_facture(client_id, facture) ==
    LET id == autoinc.factures + 1
        drawn == [autoinc EXCEPT !.factures = id]
        db_facture == [id |-> id, numero |-> facture.numero,
                       statut |-> Enum_bind(StatutFacture, facture.statut),
                       client_id |-> client_id]
    IN IF first_client(client_id) = NoClient
       THEN Untouched(Response(404, "Client avec l'ID " \o ToString(client_id)
                                        \o " non trouvé", None))
       ELSE IF \E f \in factures : f.numero = facture.numero
       THEN Outcome(InternalServerError, clients, factures, reclamations, drawn)
       ELSE Outcome(Response(201, "", None), clients, factures \cup {db_facture},
                    reclamations, drawn)

\* ReclamationCreate: sujet, description (left out here) and statut, which
\* ReclamationBase declares as str with default "ouverte".
ReclamationCreate(sujet, statut) ==
    [sujet |-> sujet, statut |-> IF statut = None THEN "ouverte" ELSE statut]
\* The strings a request puts in the statut of a complaint: nothing, a
\* value of StatutReclamation, a name of it, and an invoice status.
StatutInputs == {None, "en_cours", "OUVERTE", "payé"}

\* POST /clients/{client_id}/reclamations: add, commit, refresh.  The status
\* string goes to the INSERT through Enum_bind; a column that refuses it
\* fails the commit, a column that adjusts it keeps the row, and refresh
\* then raises on reading it back.
creer_reclamation(client_id, reclamation) ==
    LET id == autoinc.reclamations + 1
        drawn == [autoinc EXCEPT !.reclamations = id]
        column == ENUM_column(StatutReclamation,
                              Enum_bind(StatutReclamation, reclamation.statut))
        db_reclamation == [id |-> id, sujet |-> reclamation.sujet,
                           statut |-> column.stored, client_id |-> client_id]
        inserted == reclamations \cup {db_reclamation}
    IN IF first_client(client_id) = NoClient
       THEN Untouched(Response(404, "Client avec l'ID " \o ToString(client_id)
                                        \o " non trouvé", None))
       ELSE IF column.exc # "" THEN Untouched(InternalServerError)
       ELSE IF Enum_result(StatutReclamation, column.stored).exc # ""
       THEN Outcome(InternalServerError, clients, factures, inserted, drawn)
       ELSE Outcome(Response(201, "", None), clients, factures, inserted, drawn)

\* FactureUpdate: statut is a StatutFacture; pydantic takes the values of
\* the enumeration and answers 422 for anything else.
FactureUpdate_valid(update) == update.statut \in Members(StatutFacture)
UnprocessableEntity == Response(422, "enum", None)

\* PATCH /reclamations/{reclamation_id}: the body is declared as
\* update: FactureUpdate.  The query reads the row through Enum_result;
\* reclamation.statut = update.statut goes to the UPDATE through Enum_bind;
\* commit and refresh as in creer_reclamation.
modifier_statut_reclamation(reclamation_id, update) ==
    LET reclamation == first_reclamation(reclamation_id)
        column == ENUM_column(StatutReclamation,
                              Enum_bind(StatutReclamation, update.statut))
        updated == (reclamations \ {reclamation})
                      \cup {[reclamation EXCEPT !.statut = column.stored]}
    IN IF ~FactureUpdate_valid(update) THEN Untouched(UnprocessableEntity)
       ELSE IF reclamation = NoReclamation
       THEN Untouched(Response(404, "Facture avec l'ID " \o ToString(reclamation_id)
                                        \o " non trouvée", None))
       ELSE IF Enum_result(StatutReclamation, reclamation.statut).exc # ""
       THEN Untouched(InternalServerError)
       ELSE IF column.exc # "" THEN Untouched(InternalServerError)
       ELSE IF Enum_result(StatutReclamation, column.stored).exc # ""
       THEN Outcome(InternalServerError, clients, factures, updated, autoinc)
       ELSE Outcome(Response(200, "", None), clients, factures, updated, autoinc)

\* The identities two registrations leave in the table: an administrator
\* and a standard user.
Registered(id, username, email, role) ==
    [id |-> id, username |-> username, email |-> email,
     hashed_password |-> hash_password("secret123", id), role |-> role,
     is_active |-> 1]

\* A serving process whose identities are registered and whose business
\* tables are empty, on a MySQL server of either sql_mode.
InitClients ==
    /\ environ \in [SECRET_KEY : ConfiguredSecrets, fastapi : {"legacy", "current"},
                   sql_mode : SqlModes]
    /\ proc = "serving"
    /\ SECRET_KEY = environ.SECRET_KEY
    /\ now = 0
    /\ users = {Registered(1, "alice", "alice@x.com", Role_ADMIN),
                Registered(2, "bob", "bob@x.com", Role_USER)}
    /\ last = NoLast
    /\ call = NoCall
    /\ held = GarbageToken
    /\ dec = NoDec
    /\ entropy = 2
    /\ hashed = <<>>
    /\ ver = NoVer
    /\ inflight = NoRequests
    /\ clients = {}
    /\ factures = {}
    /\ reclamations = {}
    /\ autoinc = NoRows

\* The ids a request names: those of the rows inserted, and 0, which no row
\* has.
ClientIds == 0 .. MaxClients
ReclamationIds == 0 .. MaxReclamations
\* The credentials of a delete request: none, or the token login issues to
\* the administrator or to the standard user.
Callers ==
    {<<"absent", GarbageToken>>}
    \cup {<<"bearer", login([username |-> n, password |-> "secret123"]).access_token>> :
             n \in Names}

Commit(o) ==
    /\ clients' = o.clients
    /\ factures' = o.factures
    /\ reclamations' = o.reclamations
    /\ autoinc' = o.autoinc
    /\ UNCHANGED <<environ, proc, SECRET_KEY, now, users, call, held, dec,
                   entropy, hashed, ver, inflight>>

CreerClient ==
    /\ proc = "serving"
    /\ last.op = "none"
    /\ autoinc.clients < MaxClients
    /\ \E client \in ClientCreates :
          LET o == creer_client(client)
          IN /\ last' = [NoLast EXCEPT !.op = "creer_client", !.nom = client.nom,
                                       !.email = client.email, !.resp = o.resp]
             /\ Commit(o)

SupprimerClient ==
    /\ proc = "serving"
    /\ last.op = "none"
    /\ \E hdr_token \in Callers, client_id \in ClientIds :
          LET o == supprimer_client(client_id)
          IN /\ last' = [NoLast EXCEPT !.op = "supprimer_client",
                                       !.hdr = hdr_token[1], !.token = hdr_token[2],
                                       !.id = client_id, !.resp = o.resp]
             /\ Commit(o)

RouterSupprimerClient ==
    /\ proc = "serving"
    /\ last.op = "none"
    /\ \E hdr_token \in Callers, client_id \in ClientIds :
          LET o == router_supprimer_client(hdr_token[1], hdr_token[2], client_id)
          IN /\ last' = [NoLast EXCEPT !.op = "router_supprimer_client",
                                       !.hdr = hdr_token[1], !.token = hdr_token[2],
                                       !.id = client_id, !.resp = o.resp]
             /\ Commit(o)

CreerFacture ==
    /\ proc = "serving"
    /\ last.op = "none"
    /\ autoinc.factures < MaxFactures
    /\ \E client_id \in ClientIds, numero \in FactureNumeros, statut \in {None} :
          LET o == creer_facture(client_id, FactureCreate(numero, statut))
          IN /\ last' = [NoLast EXCEPT !.op = "creer_facture", !.id = client_id,
                                       !.numero = numero, !.statut = statut,
                                       !.resp = o.resp]
             /\ Commit(o)

CreerReclamation ==
    /\ proc = "serving"
    /\ last.op = "none"
    /\ autoinc.reclamations < MaxReclamations
    /\ \E client_id \in ClientIds, statut \in StatutInputs :
          LET o == creer_reclamation(client_id, ReclamationCreate("Retard", statut))
          IN /\ last' = [NoLast EXCEPT !.op = "creer_reclamation", !.id = client_id,
                                       !.statut = statut, !.resp = o.resp]
             /\ Commit(o)

ModifierStatutReclamation ==
    /\ proc = "serving"
    /\ last.op = "none"
    /\ \E reclamation_id \in ReclamationIds, statut \in StatutInputs \ {None} :
          LET o == modifier_statut_reclamation(reclamation_id, [statut |-> statut])
          IN /\ last' = [NoLast EXCEPT !.op = "modifier_statut_reclamation",
                                       !.id = reclamation_id, !.statut = statut,
                                       !.resp = o.resp]
             /\ Commit(o)

\* Clients with their invoices and complaints.
NextClients ==
    \/ Respond
    \/ CreerClient
    \/ SupprimerClient
    \/ CreerFacture
    \/ CreerReclamation

SpecClients == InitClients /\ [][NextClients]_vars

\* The two handlers that delete a client.
NextSuppression ==
    \/ Respond
    \/ CreerClient
    \/ SupprimerClient
    \/ RouterSupprimerClient

SpecSuppression == InitClients /\ [][NextSuppression]_vars

\* The status of complaints.
NextReclamations ==
    \/ Respond
    \/ CreerClient
    \/ CreerReclamation
    \/ ModifierStatutReclamation

SpecReclamations == InitClients /\ [][NextReclamations]_vars

\* ------------------------------------------------------------ properties

\* The request just handled carried "Authorization: Bearer <token>".
Bearer(op) == last.op = op /\ last.hdr = "bearer"
\* validate of the presented token at the time of the request.
Validated == decode_access_token(last.token, now)
Validates == Validated.raised = "" /\ Validated.data.present
\* The stored identities named by the decoded subject.
Named == {u \in users : Validates /\ u.username = Validated.data.username}

AccountDisabled == Response(403, "Compte désactivé", None)
AuthorizationDenied == Response(403, "Accès réservé aux administrateurs", None)

\* C1: in mandatory mode a request with a bearer token is accepted with
\* identity u exactly when the token validates, u is the stored identity
\* named by the decoded subject and u is active; it gets the 401 rejection
\* when the token does not validate or names no stored identity, and the 403
\* account-disabled rejection when the named identity is inactive.
C1_MandatoryMode ==
    Bearer("get_current_user") =>
        /\ \A u \in users \cup {last.resp.user} :
              (last.resp.status = 200 /\ last.resp.user = u)
                  <=> (Validates /\ u \in Named /\ u.is_active # 0)
        /\ (~Validates \/ Named = {}) => last.resp = credentials_exception
        /\ (Named # {} /\ \A u \in Named : u.is_active = 0)
              => last.resp = AccountDisabled

\* C1 witness: alice, registered and active, is accepted with her token.
C1_Witness ==
    /\ Bearer("get_current_user")
    /\ last.resp.status = 200
    /\ last.resp.user.username = "alice"
    /\ last.token.payload.sub = "alice"
    /\ \E u \in users : u.username = "bob" /\ u.is_active = 0

\* C2: role-gated mode accepts exactly when mandatory mode accepts and the
\* stored role is admin; an accepted non-admin gets the 403
\* authorization-denied answer, which is not the 401 one, and every rejection
\* of mandatory mode is passed on unchanged.
C2_RoleGated ==
    last.op = "require_admin" =>
        LET m == get_current_user(last.hdr, last.token)
        IN /\ last.resp.status = 200 <=> (m.status = 200 /\ m.user.role = Role_ADMIN)
           /\ last.resp.status = 200 => last.resp = m
           /\ (m.status = 200 /\ m.user.role # Role_ADMIN)
                 => (last.resp = AuthorizationDenied /\ last.resp # credentials_exception)
           /\ m.status # 200 => last.resp = m

\* C2 witness: an active standard user with a valid token is denied.
C2_Witness ==
    /\ Bearer("require_admin")
    /\ last.resp = AuthorizationDenied
    /\ Validates
    /\ \E u \in Named : u.role = Role_USER /\ u.is_active = 1

\* The causes of failure C3 lists, read off the token and the store.
WellSigned(token) ==
    /\ token.form = "jws"
    /\ token.alg = ALGORITHM
    /\ token.sig = HMAC(SECRET_KEY, token.alg, token.payload)
FailureCauses(token) ==
    {c \in {"malformed", "expired", "wrong_signature", "no_subject", "unknown_identity"} :
        \/ c = "malformed" /\ token.form = "garbage"
        \/ c = "expired" /\ WellSigned(token) /\ token.payload.exp < timegm(now)
        \/ c = "wrong_signature" /\ token.form = "jws"
              /\ token.sig # HMAC(SECRET_KEY, token.alg, token.payload)
        \/ c = "no_subject" /\ WellSigned(token) /\ token.payload.sub = None
        \/ c = "unknown_identity" /\ WellSigned(token)
              /\ token.payload.exp > timegm(now)
              /\ token.payload.sub \in Names
              /\ \A u \in users : u.username # token.payload.sub}

\* C3: in mandatory mode a malformed token, an expired one, one with a wrong
\* signature, one without subject and a valid one naming no stored identity
\* all get the one response credentials_exception (401, the same detail, the
\* same WWW-Authenticate header).
C3_UniformRejection ==
    (Bearer("get_current_user") /\ FailureCauses(last.token) # {})
        => last.resp = credentials_exception

\* C3 witness: a valid token for bob, who is not registered, while alice is.
C3_Witness ==
    /\ Bearer("get_current_user")
    /\ FailureCauses(last.token) = {"unknown_identity"}
    /\ last.token.payload.sub = "bob"
    /\ \E u \in users : u.username = "alice"
    /\ last.resp = credentials_exception

\* C4 (as claimed): in mandatory mode a request without Authorization header
\* is rejected with 401 and WWW-Authenticate: Bearer, not with 403.
C4_MissingHeaderIs401 ==
    (last.op \in {"get_current_user", "require_admin"} /\ last.hdr = "absent")
        => (last.resp.status = 401 /\ last.resp.www = "Bearer")

\* C5: optional mode never rejects: its answer is never a 401 or a 403, and
\* without header, with a token that does not validate, with an unknown
\* identity and with a disabled account it is "no identity"; otherwise it is
\* the active identity named by the token.
C5_OptionalNeverRejects ==
    last.op = "get_current_user_optional" =>
        /\ last.resp.status = 200
        /\ (\/ last.hdr # "bearer"
            \/ ~Validates
            \/ Named = {}
            \/ \A u \in Named : u.is_active = 0) => last.resp = Anonymous
        /\ last.resp # Anonymous => (last.resp.user \in Named /\ last.resp.user.is_active # 0)

\* C5 witness: a valid token of a disabled account yields "no identity".
C5_Witness ==
    /\ Bearer("get_current_user_optional")
    /\ Validates
    /\ \E u \in Named : u.is_active = 0
    /\ last.resp = Anonymous

\* The decoded token is the one create_access_token returned, unaltered, for a
\* claim set {subject, role} of the types the identity store holds.
DecodedAsIssued ==
    /\ call.made /\ call.exc = ""
    /\ dec.made /\ dec.token = call.token
    /\ call.data.sub \in Names
    /\ call.data.role \in Roles \cup {None}

\* C6: a token issued for {subject, role} with a positive ttl and validated
\* at any time strictly before the issue time plus the ttl, under the same
\* secret and algorithm, yields exactly that subject and that role.
C6_RoundTrip ==
    (/\ DecodedAsIssued
     /\ ~call.expires_delta.is_none
     /\ call.expires_delta.ticks > 0
     /\ dec.at < call.at + call.expires_delta.ticks)
        => (dec.raised = "" /\ dec.data = TokenData(call.data.sub, call.data.role))

\* C6 witness: a token validated later than it was issued, within the last
\* second of its lifetime, yields its claims.
C6_Witness ==
    /\ DecodedAsIssued
    /\ ~call.expires_delta.is_none
    /\ call.expires_delta.ticks > 0
    /\ call.at < dec.at
    /\ dec.at < call.at + call.expires_delta.ticks
    /\ timegm(dec.at) = call.token.payload.exp
    /\ dec.data = TokenData("alice", Role_USER)

\* C7 (as claimed): validate returns the claims only at times strictly
\* earlier than the token's expiry (the issue time plus the ttl), and absent
\* at the expiry instant and at every later time.
C7_StrictExpiry ==
    (/\ DecodedAsIssued
     /\ ~call.expires_delta.is_none
     /\ call.expires_delta.ticks > 0)
        => LET expiry == call.at + call.expires_delta.ticks
           IN /\ dec.data.present => dec.at < expiry
              /\ dec.at >= expiry => (dec.raised = "" /\ ~dec.data.present)

\* C8 (as claimed): validate never raises, and returns absent for a malformed
\* string, a signature that does not match, another algorithm, a payload
\* without subject and an expired token.
C8_ValidateTotal ==
    dec.made =>
        /\ dec.raised = ""
        /\ (\/ dec.token.form = "garbage"
            \/ dec.token.sig # HMAC(SECRET_KEY, dec.token.alg, dec.token.payload)
            \/ dec.token.alg # ALGORITHM
            \/ dec.token.payload.sub = None
            \/ dec.token.payload.exp < timegm(dec.at)) => ~dec.data.present

\* C9 (as claimed): the expiry claim is the call time plus the ttl for every
\* ttl passed, a zero one included, and the call time plus the default
\* lifetime only when none is passed.
C9_ExpiryIsNowPlusTtl ==
    (call.made /\ call.exc = "") =>
        call.token.payload.exp =
            timegm(call.at + (IF call.expires_delta.is_none
                              THEN DefaultLifetime
                              ELSE call.expires_delta.ticks))

\* C10 (as claimed): the process never serves with the secret unset or empty:
\* no login fails in create_access_token and no token is validated against
\* an unset secret.
C10_SecretCheckedAtStartup ==
    /\ proc = "serving" => SECRET_KEY \notin {None, ""}
    /\ last.op = "login" => last.resp.status # 500
    /\ (last.op \in {"get_current_user", "require_admin", "get_current_user_optional"}
        /\ last.hdr = "bearer") => Validated.raised # "JWKError"

\* C11: for every hash h that hash_password returned for a password p2 and
\* every password p1, verify_password(p1, h) returns, and returns true
\* exactly when p1 = p2.
C11_VerifyExact ==
    (ver.made /\ ver.hashed_password \in Returned) =>
        /\ ver.exc = ""
        /\ \A i \in 1 .. Len(hashed) :
              hashed[i].hash = ver.hashed_password
                  => (ver.ok <=> ver.plain_password = hashed[i].password)

\* C11 witness: after both passwords were hashed, the hash of one is
\* verified against the other password and does not match.
C11_Witness ==
    /\ ver.made
    /\ ~ver.ok
    /\ \E i, j \in 1 .. Len(hashed) :
          /\ hashed[i].hash = ver.hashed_password
          /\ hashed[i].password # ver.plain_password
          /\ hashed[j].password = ver.plain_password

\* C12: two hash_password calls with the same password return two different
\* strings, each with the salt drawn for its call, and both strings verify
\* against that password.
C12_SaltUnique ==
    \A i, j \in 1 .. Len(hashed) :
        (i # j /\ hashed[i].password = hashed[j].password) =>
            /\ hashed[i].hash # hashed[j].hash
            /\ hashed[i].hash.salt # hashed[j].hash.salt
            /\ verify_password(hashed[i].password, hashed[i].hash) = [exc |-> "", ok |-> TRUE]
            /\ verify_password(hashed[i].password, hashed[j].hash) = [exc |-> "", ok |-> TRUE]

\* C12 witness: the same password hashed twice, with a hash of another
\* password in between.
C12_Witness ==
    /\ Len(hashed) = 3
    /\ hashed[1].password = hashed[3].password
    /\ hashed[2].password # hashed[1].password
    /\ hashed[1].hash # hashed[3].hash

\* C13 (as claimed): verify_password never raises; for a stored string that
\* is not a well-formed hash of the configured scheme (empty, truncated, of
\* another scheme) it returns false, and a login against a row holding such
\* a string gets the authentication-failure response.
C13_VerifyNeverRaises ==
    /\ ver.made => ver.exc = ""
    /\ (ver.made /\ ~WellFormed(ver.hashed_password)) => ~ver.ok
    /\ (/\ last.op = "login"
        /\ first_by_username(last.username) # NoUser
        /\ ~WellFormed(first_by_username(last.username).hashed_password))
          => last.resp = IncorrectCredentials

\* The row a login request names, and whether its password is the row's.
LoginUser == first_by_username(last.username)
PasswordMatches ==
    /\ LoginUser # NoUser
    /\ verify_password(last.password, LoginUser.hashed_password).ok
NoTokenIssued ==
    last.resp.access_token = GarbageToken /\ last.resp.token_type = None

C15_DisabledLoginForbidden ==
    (last.op = "login" /\ LoginUser # NoUser /\ LoginUser.is_active = 0) =>
        /\ NoTokenIssued
        /\ PasswordMatches =>
              (/\ last.resp = AccountDisabled
               /\ last.resp.status = 403
               /\ last.resp # IncorrectCredentials)

\* C15 witness: alice, disabled, logs in with her password.
C15_Witness ==
    /\ last.op = "login"
    /\ LoginUser # NoUser
    /\ LoginUser.is_active = 0
    /\ PasswordMatches
    /\ last.resp = AccountDisabled

\* C16: a login with a registered name, the correct password and an active
\* identity returns a token of type "bearer" that validates at once with
\* subject = the name and role = the wire string of the stored role, and
\* that mandatory mode accepts with that identity; the kept token, presented
\* before its expiry while the identity is as it was, is accepted with that
\* identity.
C16_LoginIssuesValidToken ==
    /\ (last.op = "login" /\ PasswordMatches /\ LoginUser.is_active = 1) =>
          /\ last.resp.status = 200
          /\ last.resp.token_type = "bearer"
          /\ decode_access_token(last.resp.access_token, now)
                = [raised |-> "", data |-> TokenData(LoginUser.username, LoginUser.role)]
          /\ get_current_user("bearer", last.resp.access_token) = Accept(LoginUser)
    /\ (/\ last.op = "get_current_user"
        /\ call.made
        /\ last.token = call.token
        /\ now < call.at + DefaultLifetime)
          => \A u \in users :
                (u.username = call.data.sub /\ u.role = call.data.role /\ u.is_active = 1)
                    => (last.resp.status = 200 /\ last.resp.user = u)

\* C16 witness: alice's token, kept at login, is presented later and within
\* its lifetime, and alice is returned.
C16_Witness ==
    /\ last.op = "get_current_user"
    /\ call.made
    /\ last.token = call.token
    /\ call.at < now
    /\ now < call.at + DefaultLifetime
    /\ last.resp.status = 200
    /\ last.resp.user.username = "alice"
    /\ call.data.sub = "alice"

\* C17: a register request whose name is registered gets the conflict
\* response for the name, whether its email is registered or not; one whose
\* name is free and whose email is registered gets the conflict response for
\* the email; either leaves table users as it was.
C17_DuplicateRejected ==
    [][(last.op = "none" /\ last'.op = "register") =>
          LET name_taken == first_by_username(last'.username) # NoUser
              email_taken == first_by_email(last'.email) # NoUser
          IN /\ name_taken => (last'.resp = UsernameTaken /\ users' = users)
             /\ (~name_taken /\ email_taken)
                   => (last'.resp = EmailTaken /\ users' = users)
             /\ last'.resp.status = 400 => (name_taken \/ email_taken)]_vars

\* C17 witness: a new name with alice's email is refused; alice is the only
\* row.
C17_Witness ==
    /\ last.op = "register"
    /\ last.username = "bob"
    /\ last.resp = EmailTaken
    /\ Cardinality(users) = 1
    /\ first_by_username("alice") # NoUser
    /\ first_by_username("alice").email = last.email

\* C18: in every state reached by register requests handled side by side,
\* no two rows of users have the same username and no two the same email.
C18_IdentityUnique ==
    \A u, v \in users :
        (u.username = v.username \/ u.email = v.email) => u = v

\* C18 witness: two requests for the same name passed both queries; one
\* row is stored.
C18_Witness ==
    \E r, q \in Requests :
        /\ r # q
        /\ inflight[r].pc = "done" /\ inflight[r].resp.status = 201
        /\ inflight[q].pc = "done" /\ inflight[q].db_user = NoUser
        /\ inflight[q].resp.status \notin {201, 400}
        /\ inflight[q].user.username = inflight[r].user.username
        /\ inflight[q].user.email # inflight[r].user.email
        /\ Cardinality(users) = 1

\* C19 (as claimed): every register request ends in the ok or in the
\* conflict response, never in an internal error; a request for a name or an
\* email that another request has stored ends in the conflict response.
C19_ClosedSignals ==
    \A r \in Requests :
        inflight[r].pc = "done" =>
            /\ inflight[r].resp.status \in {201, 400}
            /\ inflight[r].resp.status = 201 \/ inflight[r].resp \in {UsernameTaken, EmailTaken}

\* C20: the body of a register response and of a profile response has the
\* fields id, username, email, role and is_active and no other, and they are
\* the row's; the row stored by register holds a well-formed hash of the
\* plaintext of the request, which verifies against that plaintext.
C20_NoPasswordMaterial ==
    /\ last.op \in {"register", "get_current_user"} =>
          /\ DOMAIN last.resp.body = {"id", "username", "email", "role", "is_active"}
          /\ last.resp.status \in {200, 201} =>
                \E u \in users :
                    last.resp.body = [id |-> u.id, username |-> u.username,
                                      email |-> u.email, role |-> u.role,
                                      is_active |-> u.is_active = 1]
    /\ (last.op = "register" /\ last.resp.status = 201) =>
          LET row == first_by_username(last.username)
          IN /\ row.hashed_password
                   = hash_password(last.password, row.hashed_password.salt)
             /\ verify_password(last.password, row.hashed_password).ok
    /\ \A u \in users : WellFormed(u.hashed_password)

\* C20 witness: the profile of alice, registered with password and hash.
C20_Witness ==
    /\ last.op = "get_current_user"
    /\ last.resp.status = 200
    /\ last.resp.body.username = "alice"
    /\ last.resp.user.hashed_password.pw \in Passwords
    /\ Cardinality(users) = 2

\* C23: for every header, token, time and table, optional mode returns
\* identity u exactly when mandatory mode accepts with u, and returns "no
\* identity" exactly when mandatory mode rejects, with whatever signal.
C23_OptionalAgreesWithMandatory ==
    last.op = "get_current_user_optional" =>
        LET m == get_current_user(last.hdr, last.token)
        IN /\ \A u \in users \cup {last.resp.user} :
                 (last.resp.status = 200 /\ last.resp.user = u /\ u # NoUser)
                     <=> m = Accept(u)
           /\ last.resp = Anonymous <=> m.status \in {401, 403}
           /\ last.resp.status = 200

\* C23 witness: a valid token of a disabled identity: mandatory mode answers
\* account-disabled and optional mode "no identity".
C23_Witness ==
    /\ Bearer("get_current_user_optional")
    /\ get_current_user(last.hdr, last.token) = AccountDisabled
    /\ last.resp = Anonymous
    /\ \E u \in users : u.is_active = 1

\* The operations of the core other than registration.
ReadOnlyOps ==
    {"login", "get_current_user", "require_admin", "get_current_user_optional"}

\* C25: login and the three authorization modes, accepting or rejecting,
\* leave table users as it is, and so does a register request that fails; a
\* register request that succeeds adds one row and changes no other; no
\* request removes a row or changes the role or the active flag of one.
C25_IdentityFrame ==
    [][(last.op = "none" /\ last'.op # "none") =>
          /\ last'.op \in ReadOnlyOps => users' = users
          /\ (last'.op = "register" /\ last'.resp.status # 201) => users' = users
          /\ (last'.op = "register" /\ last'.resp.status = 201) =>
                /\ users \subseteq users'
                /\ Cardinality(users') = Cardinality(users) + 1
                /\ last'.resp.user \in users' \ users
          /\ \A u \in users : \E v \in users' :
                v.id = u.id /\ v.role = u.role /\ v.is_active = u.is_active]_vars

\* C25 witness: bob has registered while alice, disabled, stays as she was.
C25_Witness ==
    /\ last.op = "register"
    /\ last.resp.status = 201
    /\ last.resp.user.username = "bob"
    /\ \E u \in users : u.username = "alice" /\ u.is_active = 0

\* C26: role-gated mode decides on the stored role: its answer is the same
\* whatever role claim the presented token carries, none included; an
\* accepted identity is an administrator in the table; and mandatory mode
\* accepts a token without role claim.
C26_StoredRoleDecides ==
    /\ (Bearer("require_admin") /\ WellSigned(last.token)) =>
          /\ \A role \in Roles \cup {None} :
                require_admin("bearer",
                              Forge("ok", [last.token.payload EXCEPT !.role = role]))
                    = last.resp
          /\ \A u \in Named :
                u.is_active = 1 => (last.resp.status = 200 <=> u.role = Role_ADMIN)
    /\ (/\ Bearer("get_current_user")
        /\ WellSigned(last.token)
        /\ last.token.payload.role = None
        /\ Validates)
          => \A u \in Named : u.is_active = 1 => last.resp.status = 200

\* C26 witness: a token with role claim admin for an identity stored as
\* standard user is denied.
C26_Witness ==
    /\ Bearer("require_admin")
    /\ WellSigned(last.token)
    /\ Validates
    /\ last.token.payload.role = Role_ADMIN
    /\ \E u \in Named : u.role = Role_USER /\ u.is_active = 1
    /\ last.resp = AuthorizationDenied

\* The request just handled presented the token kept from a login, at a time
\* before that token expires.
HeldPresented(op) ==
    /\ last.op = op
    /\ call.made
    /\ last.token = call.token
    /\ now < call.at + DefaultLifetime
\* The rows of the identity the kept token was issued to.
Holder == {u \in users : call.made /\ u.username = call.data.sub}

\* C24: while the holder of an unexpired token is disabled, mandatory mode
\* rejects the token with account-disabled and optional mode answers "no
\* identity"; while the holder is active (never disabled, or enabled again)
\* the same token is accepted with the holder; decode_access_token returns
\* the token's claims all the while.
C24_DisablingTakesEffect ==
    \A u \in Holder :
        /\ HeldPresented("get_current_user") =>
              /\ u.is_active = 0 => last.resp = AccountDisabled
              /\ u.is_active = 1 => (last.resp.status = 200 /\ last.resp.user = u)
        /\ HeldPresented("get_current_user_optional") =>
              /\ u.is_active = 0 => last.resp = Anonymous
              /\ u.is_active = 1 => last.resp = Accept(u)
        /\ (call.made /\ now < call.at + DefaultLifetime) =>
              decode_access_token(call.token, now)
                  = [raised |-> "", data |-> TokenData(call.data.sub, call.data.role)]

\* C24 witness: the holder logged in (so was active), is disabled now, and
\* the token is rejected with account-disabled at a later time.
C24_Witness ==
    /\ HeldPresented("get_current_user")
    /\ call.at < now
    /\ \E u \in Holder : u.is_active = 0
    /\ last.resp = AccountDisabled

\* C27: a register request, which carries no credentials, that succeeds
\* has stored a row with is_active = 1 and the role of the request, the
\* standard role when the request has none; and the token of a login, held
\* by an identity that registered itself as administrator, is accepted by
\* role-gated mode.
C27_SelfRegisteredRole ==
    /\ (last.op = "register" /\ last.resp.status = 201) =>
          /\ last.hdr = "absent"
          /\ \E u \in users :
                /\ u.username = last.username
                /\ u.is_active = 1
                /\ u.role = (IF last.role = None THEN Role_USER ELSE last.role)
                /\ last.resp.user = u
    /\ HeldPresented("require_admin") =>
          \A u \in Holder :
              (u.is_active = 1 /\ u.role = Role_ADMIN) =>
                  (last.resp.status = 200 /\ last.resp.user = u)

\* C27 witness: the only row of the table is alice, and her token is
\* accepted by role-gated mode.
C27_Witness ==
    /\ HeldPresented("require_admin")
    /\ last.resp.status = 200
    /\ users = {last.resp.user}
    /\ last.resp.user.role = Role_ADMIN
    /\ last.resp.user.id = 1


\* The request just answered is a delete-client request, of either handler.
DeleteClientOps == {"supprimer_client", "router_supprimer_client"}

\* C21 (as claimed): a step that removes a row of table clients is the
\* answer to a request that passes the role-gated check: it carries a valid
\* token of an existing, active identity whose role is administrator.  No
\* request without credentials and no request of a standard user removes a
\* client, whichever handler serves it.
C21_DeletionReservedToAdministrators ==
    [][(clients \ clients' # {}) =>
          /\ last'.op \in DeleteClientOps
          /\ require_admin(last'.hdr, last'.token).status = 200]_vars

\* Every invoice and every complaint references a row of table clients.
Referenced ==
    /\ \A f \in factures : \E c \in clients : c.id = f.client_id
    /\ \A r \in reclamations : \E c \in clients : c.id = r.client_id

\* C22: through client creation, invoice creation, complaint creation and
\* client deletion every stored invoice and complaint references an existing
\* client; a delete request answered 204 removes the client, all its
\* invoices and all its complaints and no row of another client; an invoice
\* or complaint request for an id that no client has is answered 404 and
\* leaves the three tables as they are.
C22_ReferentialIntegrity ==
    [][/\ Referenced /\ Referenced'
       /\ (last'.op = "supprimer_client" /\ last'.resp.status = 204) =>
             /\ clients' = {c \in clients : c.id # last'.id}
             /\ factures' = {f \in factures : f.client_id # last'.id}
             /\ reclamations' = {r \in reclamations : r.client_id # last'.id}
       /\ (last'.op \in {"creer_facture", "creer_reclamation"}
             /\ first_client(last'.id) = NoClient) =>
             /\ last'.resp.status = 404
             /\ clients' = clients
             /\ factures' = factures
             /\ reclamations' = reclamations]_vars

\* C22 witness: of two clients, each with an invoice, and one with a
\* complaint, the one with the complaint has just been deleted: the other
\* client and its invoice are what is left.
C22_Witness ==
    /\ last.op = "supprimer_client"
    /\ last.resp.status = 204
    /\ autoinc = [clients |-> 2, factures |-> 2, reclamations |-> 1]
    /\ Cardinality(clients) = 1
    /\ Cardinality(factures) = 1
    /\ reclamations = {}
    /\ \A f \in factures : f.client_id # last.id /\ f.id = 2
    /\ Referenced

\* The status of a stored complaint is a member of StatutReclamation.
StatutStored == \A r \in reclamations : r.statut \in DOMAIN StatutReclamation

\* C28 (as claimed): the status of every stored complaint is one of ouverte,
\* en_cours, resolue; a complaint is created only with one of these values
\* (or none, which is ouverte) and its status is updated only to one of
\* them; no request stores an invoice status or another string on a
\* complaint; a status update changes the status of the complaint it names
\* and nothing else.
C28_ComplaintStatus ==
    [][/\ StatutStored /\ StatutStored'
       /\ (last'.op = "creer_reclamation" /\ last'.resp.status = 201) =>
             last'.statut \in Members(StatutReclamation) \cup {None}
       /\ (last'.op = "modifier_statut_reclamation" /\ last'.resp.status = 200) =>
             last'.statut \in Members(StatutReclamation)
       /\ (last'.op \in {"creer_reclamation", "modifier_statut_reclamation"}
             /\ last'.statut \notin Members(StatutReclamation) \cup {None}) =>
             reclamations' = reclamations
       /\ last'.op = "modifier_statut_reclamation" =>
             /\ clients' = clients
             /\ factures' = factures
             /\ {[r EXCEPT !.statut = None] : r \in reclamations'}
                   = {[r EXCEPT !.statut = None] : r \in reclamations}
             /\ \A r \in reclamations :
                   r.id # last'.id => r \in reclamations']_vars

====
